---- MODULE Spec2Model ----
(***************************************************************************)
(* Circular navigation (wp-hierarchical-d3-navigation): the selection      *)
(* state coordinator (StateManager, CircularNavManager.handleNodeClick,    *)
(* the node and outer-element click handlers) and the content cache        *)
(* (CacheManager: get, set, cleanup, preloadContent, processPreloadQueue,  *)
(* clear, init).                                                           *)
(*                                                                         *)
(* JavaScript is single threaded: a handler runs to its first await, and   *)
(* what follows an await runs later.  Each action below is one such run.   *)
(***************************************************************************)
EXTENDS Integers, Sequences, FiniteSets, TLC

VARIABLES
    \* StateManager.state (part_001:259-272)
    selectedNode, previousNode, isTransitioning, isError, error, contentLoaded,
    \* handleSelectionChange calls suspended at their first await, oldest first
    inFlight,
    \* notifications given out: StateManager.emit events and container events
    notified,
    \* the last user/host operation and what the flag was when it arrived
    lastEvent,
    \* CacheManager fields (part_001:473-484)
    cache, preloadQueue, loadingPromises, isLoading, lastCleanup,
    \* Date.now()
    now,
    \* network fetches in flight, and the processPreloadQueue calls still alive
    fetches, drains,
    \* the ids the last set call evicted
    lastEvicted,
    \* the container's rectangle and the window's inner size
    viewport,
    \* DisplayManager.lastDimensions, and the resize handlers registered on
    \* the window and those whose debounce timer is running
    lastDimensions, resizeListeners, resizeTimers,
    \* the dimensions of the last VisualizationManager.update call
    viewBox,
    \* the last run of a resize handler: the dimensions computed before it,
    \* the ones it computed, and whether it called viz.update
    lastResize,
    \* the hierarchy last given to processHierarchicalData, as the number of
    \* children of each depth-1 node, and the x (angle) and y (radius) of
    \* every node of the hierarchy it returned
    data, nodeX, nodeY,
    \* how many times processHierarchicalData has run, and whether its last
    \* run was given the hierarchy of the run before
    layoutRuns, lastRunRepeated,
    \* the last call of calculateAverageAngle: its argument and its result
    lastAverage,
    \* the hierarchy the node and link selections are bound to, whether they
    \* have been created, whether updateSelection has classified them, and the
    \* node last passed to updateSelection
    bound, created, classified, selected,
    \* the nodes isActiveNode and isSiblingNode hold of, the links
    \* isActivePath and isSiblingPath hold of, and every link's opacity
    activeNodes, siblingNodes, activeLinks, siblingLinks, linkOpacity,
    \* per container, the CircularNavManager created for it: how far its init()
    \* has come, its StateManager's isInitialized, isError, error and data, the
    \* setup steps init() has run and the events dispatched on its container
    managers,
    \* VisualizationManager.activeTransitions (the tracked transitions), the d3
    \* transitions in flight, how many visual updates have started, the number of
    \* the last update that applied its values, and for the transition that ended
    \* last the update it belongs to and the update applied by then
    activeTransitions, running, updates, applied, lastCompleted,
    \* VisualizationManager.isTransitioning, and the update and updateSelection
    \* calls that have started and not yet reached the end of their finally block
    vizTransitioning, vizCalls,
    \* the last call of calculateRadius: the container rectangle it was given and
    \* the radius it returned, in twentieths of a pixel
    lastRadius,
    \* Controls.currentZoom in units of 1/ZoomScale, Controls.isZooming, and the
    \* last zoom operation with the level before and after it
    currentZoom, isZooming, lastZoom

selVars == <<selectedNode, previousNode, isTransitioning, isError, error,
             contentLoaded, inFlight, notified, lastEvent>>
cacheVars == <<cache, preloadQueue, loadingPromises, isLoading, lastCleanup, now,
               fetches, drains, lastEvicted>>
dispVars == <<viewport, lastDimensions, resizeListeners, resizeTimers, viewBox,
              lastResize>>
vars == <<selectedNode, previousNode, isTransitioning, isError, error,
          contentLoaded, inFlight, notified, lastEvent,
          cache, preloadQueue, loadingPromises, isLoading, lastCleanup, now,
          fetches, drains, lastEvicted,
          viewport, lastDimensions, resizeListeners, resizeTimers, viewBox,
          lastResize,
          data, nodeX, nodeY, layoutRuns, lastRunRepeated, lastAverage,
          bound, created, classified, selected,
          activeNodes, siblingNodes, activeLinks, siblingLinks, linkOpacity,
          managers,
          activeTransitions, running, updates, applied, lastCompleted,
          vizTransitioning, vizCalls,
          lastRadius,
          currentZoom, isZooming, lastZoom>>
classVars == <<bound, created, classified, selected,
               activeNodes, siblingNodes, activeLinks, siblingLinks, linkOpacity>>
initVars == <<managers>>
transVars == <<activeTransitions, running, updates, applied, lastCompleted,
               vizTransitioning, vizCalls>>
radiusVars == <<lastRadius>>
zoomVars == <<currentZoom, isZooming, lastZoom>>
layoutVars == <<data, nodeX, nodeY, layoutRuns, lastRunRepeated, lastAverage>>

\* what the selection handlers, the cache, the resize handlers, the
\* layout and the classification leave alone
nonSelVars == <<cacheVars, dispVars, layoutVars, classVars, initVars, transVars, radiusVars, zoomVars>>
nonCacheVars == <<selVars, dispVars, layoutVars, classVars, initVars, transVars, radiusVars, zoomVars>>
nonDispVars == <<selVars, cacheVars, layoutVars, classVars, initVars, transVars, radiusVars, zoomVars>>
nonLayoutVars == <<selVars, cacheVars, dispVars, classVars, initVars, transVars, radiusVars, zoomVars>>
nonClassVars == <<selVars, cacheVars, dispVars, layoutVars, initVars, transVars, radiusVars, zoomVars>>
nonInitVars == <<selVars, cacheVars, dispVars, layoutVars, classVars, transVars, radiusVars, zoomVars>>
nonTransVars == <<selVars, cacheVars, dispVars, layoutVars, classVars, initVars, radiusVars, zoomVars>>
nonRadiusVars == <<selVars, cacheVars, dispVars, layoutVars, classVars, initVars, transVars, zoomVars>>
nonZoomVars == <<selVars, cacheVars, dispVars, layoutVars, classVars, initVars, radiusVars, transVars>>

NULL == "null"

(***************************************************************************)
(* Bounds.                                                                 *)
(***************************************************************************)
\* selection changes whose handleSelectionChange has not resumed yet
MaxInFlight == 2
\* config.cache.maxSize (50 in DEFAULT_CONFIG), scaled down
MaxSize == 2
\* config.performance.batchSize (10 in DEFAULT_CONFIG), scaled down
BatchSize == 2
\* the clock stops advancing here
MaxClock == 3
\* processPreloadQueue calls alive at once
MaxDrains == 2
\* callers awaiting one get fetch
MaxWaiters == 2
\* get fetches in flight for one id
MaxGetFetches == 2
\* ids in one preloadContent call
MaxPreloadArgs == 3
\* depth-1 nodes of a hierarchy, and children of one depth-1 node
MaxParents == 2
MaxChildren == 3
\* runs of the layout engine
MaxLayoutRuns == 4
\* containers on the page, one CircularNavManager each
MaxInstances == 3
\* visual updates (update and updateSelection calls) in one behaviour
MaxUpdates == 4
\* container widths and heights, in steps of 25 pixels
MaxSizeSteps == 16
\* decimal places of a zoom level, and decimal digits before the point
MaxZoomDigits == 3
\* directions a revolution is cut into for the arguments of
\* calculateAverageAngle, and how many angles one call is given
Slices == 16
MaxAngles == 3

(***************************************************************************)
(* The hierarchy the selection model clicks on: one node of each depth.    *)
(***************************************************************************)
Nodes == {"R", "A", "A1"}
depth(n) == CASE n = "R" -> 0 [] n = "A" -> 1 [] OTHER -> 2

(***************************************************************************)
(* Member lookup on the manager objects.  CircularNavManager.state is the  *)
(* StateManager instance; its own fields are parent, listeners and state,  *)
(* everything else is found on the class, where isTransitioning is a       *)
(* method.  The flag itself lives one level down, in StateManager.state.   *)
(***************************************************************************)
StateManagerMethods ==
    {"initialize", "fetchInitialData", "updateState", "handleStateChange",
     "handleSelectionChange", "on", "off", "emit", "destroy", "startUpdate",
     "endUpdate", "getSelectedNode", "getPreviousNode", "getData",
     "isTransitioning"}

StateManagerMember(name) ==
    IF name \in StateManagerMethods THEN "function" ELSE "undefined"

CacheManagerMethods ==
    {"init", "get", "set", "preloadContent", "processPreloadQueue", "getBatch",
     "fetchContent", "processContent", "estimateSize", "shouldCleanup",
     "cleanup", "getStats", "clear", "destroy"}

CacheManagerMember(name) ==
    IF name \in CacheManagerMethods THEN "function" ELSE "undefined"

\* JavaScript truthiness of a looked-up member
Truthy(v) == v \notin {"undefined", "null", "false"}

(***************************************************************************)
(* StateManager.updateState with the patch handleNodeClick builds,         *)
(* { selectedNode: node, isTransitioning: true }, up to the first await.   *)
(* this.state is replaced first (line 324); handleStateChange then         *)
(*  - selection changed: records previousNode when there was a selection,  *)
(*    and enters handleSelectionChange, whose updateState({isTransitioning:*)
(*    true}) finds nothing changed and suspends (line 379);                *)
(*  - selection unchanged: the flag change reaches line 362, which calls   *)
(*    handleTransitionChange, a method the class does not have: the call   *)
(*    throws after the state has been replaced.                            *)
(***************************************************************************)
updateStateSelection(node) ==
    IF node # selectedNode
    THEN /\ selectedNode' = node
         /\ previousNode' = IF selectedNode # NULL THEN selectedNode ELSE previousNode
         /\ isTransitioning' = TRUE
         /\ inFlight' = Append(inFlight, [newNode |-> node,
                                          oldNode |-> selectedNode,
                                          oldTransitioning |-> isTransitioning])
         /\ UNCHANGED <<isError, error, contentLoaded, notified>>
    ELSE /\ isTransitioning' = TRUE
         /\ UNCHANGED <<selectedNode, previousNode, inFlight, isError, error,
                        contentLoaded, notified>>

(***************************************************************************)
(* CircularNavManager.handleNodeClick (lines 134-142).  The guard reads    *)
(* this.state.isTransitioning on the StateManager.                         *)
(***************************************************************************)
handleNodeClickRejectsNoNode(node) == node = NULL

handleNodeClickRejects(node) ==
    node = NULL \/ Truthy(StateManagerMember("isTransitioning"))

handleNodeClick(node) ==
    IF handleNodeClickRejects(node)
    THEN UNCHANGED <<selectedNode, previousNode, isTransitioning, isError, error,
                     contentLoaded, inFlight, notified>>
    ELSE /\ Len(inFlight) < MaxInFlight
         /\ updateStateSelection(node)

\* the guard of the mouse handlers: !this.parent.state.isTransitioning
mouseGuardPasses == ~Truthy(StateManagerMember("isTransitioning"))

Observe(op, node) ==
    lastEvent' = [op |-> op, node |-> node, wasTransitioning |-> isTransitioning]

\* NodeManager.setupNodeInteractions, 'click' (lines 71-76): depth 0 and 1 nodes
nodeClick(node) ==
    /\ depth(node) < 2
    /\ IF mouseGuardPasses
       THEN handleNodeClick(node)
       ELSE UNCHANGED <<selectedNode, previousNode, isTransitioning, isError, error,
                        contentLoaded, inFlight, notified>>
    /\ Observe("click", node)
    /\ UNCHANGED nonSelVars

\* NodeManager.setupNodeInteractions, 'keydown' Enter or Space (lines 90-95)
nodeKeydown(node) ==
    /\ depth(node) < 2
    /\ handleNodeClick(node)
    /\ Observe("keydown", node)
    /\ UNCHANGED nonSelVars

\* OuterElementManager.setupInteractions, 'click' on an indicator or a label
elementClick(node) ==
    /\ depth(node) = 2
    /\ IF mouseGuardPasses
       THEN handleNodeClick(node)
       ELSE UNCHANGED <<selectedNode, previousNode, isTransitioning, isError, error,
                        contentLoaded, inFlight, notified>>
    /\ Observe("click", node)
    /\ UNCHANGED nonSelVars

\* a 'node:click' event dispatched on the container by the host, with or
\* without a node in its detail
containerNodeClick(node) ==
    /\ handleNodeClick(node)
    /\ Observe("node:click", node)
    /\ UNCHANGED nonSelVars

\* StateManager.updateState called directly with the selection patch
updateState(node) ==
    /\ Len(inFlight) < MaxInFlight
    /\ updateStateSelection(node)
    /\ Observe("updateState", node)
    /\ UNCHANGED nonSelVars

(***************************************************************************)
(* CircularNavManager.handleError (lines 160-172): updateState({error,     *)
(* isError: true}) is not awaited; the state is replaced, and when isError *)
(* changed line 367 calls handleErrorChange, which the class lacks, so no  *)
(* errorChange is emitted that time.  The container event is dispatched    *)
(* either way.                                                             *)
(***************************************************************************)
handleErrorNotifies ==
    {"circular-nav:error"} \cup (IF isError THEN {"errorChange"} ELSE {})

(***************************************************************************)
(* handleSelectionChange after its first await (lines 381-397), for the    *)
(* oldest suspended call.                                                  *)
(*  try: when the new node's id is not in contentLoaded, cache.preload is  *)
(*       called; CacheManager has preloadContent and no preload, so the    *)
(*       call throws a TypeError and contentLoaded is never added to.      *)
(*       Otherwise viz.updateSelection runs and may throw.                 *)
(*  catch: parent.handleError.                                             *)
(*  finally: updateState({isTransitioning: false}) replaces the state and, *)
(*       when the flag changed, throws at line 362; when it did not, the   *)
(*       caller's handleStateChange goes on, throws at line 362 if the     *)
(*       flag had changed in the original patch, and else emits            *)
(*       selectedNodeChange.                                               *)
(***************************************************************************)
preloadCallOutcome ==
    IF CacheManagerMember("preload") = "function" THEN "called" ELSE "TypeError"

selectionFailure(p, vizOutcome) ==
    IF p.newNode # NULL /\ p.newNode \notin contentLoaded
    THEN IF preloadCallOutcome = "TypeError" THEN "TypeError" ELSE vizOutcome
    ELSE vizOutcome

\* the flag after the finally block: line 396 replaces the state before
\* handleStateChange can throw
transitioningAfterFinallyKept(flag) == flag

transitioningAfterFinally(flag) == FALSE

\* whether an updateState call that takes the flag from oldFlag to newFlag
\* emits isTransitioningChange (lines 330-337): a changed flag first reaches
\* the call of handleTransitionChange at line 362
transitionChangeEmitted(oldFlag, newFlag) ==
    /\ oldFlag # newFlag
    /\ StateManagerMember("handleTransitionChange") = "function"

resumeSelectionChange ==
    /\ inFlight # <<>>
    /\ \E vizOutcome \in {"ok", "RenderError"} :
         LET p == Head(inFlight)
             failure == selectionFailure(p, vizOutcome)
             failed == failure # "ok"
             emitsSelection == ~isTransitioning /\ p.oldTransitioning
         IN  /\ inFlight' = Tail(inFlight)
             /\ contentLoaded' =
                  IF p.newNode # NULL /\ p.newNode \notin contentLoaded
                     /\ preloadCallOutcome = "called"
                  THEN contentLoaded \cup {p.newNode} ELSE contentLoaded
             /\ isError' = (isError \/ failed)
             /\ error' = IF failed THEN failure ELSE error
             /\ notified' = notified
                  \cup (IF failed THEN handleErrorNotifies ELSE {})
                  \cup (IF emitsSelection THEN {"selectedNodeChange"} ELSE {})
                  \cup (IF \/ transitionChangeEmitted(isTransitioning, FALSE)
                           \/ transitionChangeEmitted(p.oldTransitioning, TRUE)
                        THEN {"isTransitioningChange"} ELSE {})
             /\ isTransitioning' = transitioningAfterFinally(isTransitioning)
             /\ lastEvent' = [op |-> "resume", node |-> p.newNode,
                              wasTransitioning |-> isTransitioning]
             /\ UNCHANGED <<selectedNode, previousNode>>
    /\ UNCHANGED nonSelVars

(***************************************************************************)
(* CacheManager.                                                           *)
(*   cache           the Map, as its entries in insertion order            *)
(*   preloadQueue    the Set, as its ids in insertion order                *)
(*   loadingPromises per id the promise registered by get (the tag of its  *)
(*                   fetch), 0 when the Map has no entry                   *)
(*   fetches         fetchContent calls awaiting the network: by get (0)   *)
(*                   or by the drain with that number (1, 2, ...)          *)
(*   drains          processPreloadQueue calls inside their while loop     *)
(* The payload is not modelled: nothing in the cache reads it.             *)
(***************************************************************************)
Ids == {"a", "b", "c"}

\* the caller of a fetch that get started
ByGet == 0

\* the id of the hierarchy root, which init preloads
RootId == "a"

\* shouldCleanup's time threshold in ms
CleanupInterval == 300000

CacheIds(c) == {c[i].id : i \in 1..Len(c)}
QueueIds(q) == {q[i] : i \in 1..Len(q)}
IndexOf(c, id) == CHOOSE i \in 1..Len(c) : c[i].id = id

\* Array.prototype.sort with (a, b) => a.lastAccessed - b.lastAccessed is
\* stable: entry i comes before entry j when its key is smaller, or equal
\* with i earlier in the Map
sortKeyAdded(e) == e.added

sortKey(e) == e.lastAccessed

SortsBefore(c, i, j) ==
    \/ sortKey(c[i]) < sortKey(c[j])
    \/ sortKey(c[i]) = sortKey(c[j]) /\ i < j

SortedRank(c, i) == Cardinality({j \in 1..Len(c) : SortsBefore(c, j, i)})

\* cleanup (lines 707-723): entries.slice(0, size - maxSize) are deleted
removeCountNone(c) == 0

removeCount(c) == IF Len(c) <= MaxSize THEN 0 ELSE Len(c) - MaxSize

Evicted(c) == {c[i].id : i \in {k \in 1..Len(c) : SortedRank(c, k) < removeCount(c)}}

cleanup(c) == SelectSeq(c, LAMBDA e : e.id \notin Evicted(c))

\* shouldCleanup (lines 697-701)
shouldCleanup(c, t, last) == Len(c) > MaxSize \/ t - last > CleanupInterval

\* Map.set: an existing key keeps its place
MapSet(c, id, t) ==
    LET e == [id |-> id, added |-> t, lastAccessed |-> t]
    IN  IF id \in CacheIds(c)
        THEN [c EXCEPT ![IndexOf(c, id)] = e]
        ELSE Append(c, e)

\* set (lines 539-555): the cache after set(id) at time t
cacheAfterSet(c, id, t, last) ==
    IF shouldCleanup(MapSet(c, id, t), t, last)
    THEN cleanup(MapSet(c, id, t))
    ELSE MapSet(c, id, t)

lastCleanupAfterSet(c, id, t, last) ==
    IF shouldCleanup(MapSet(c, id, t), t, last) /\ Len(MapSet(c, id, t)) > MaxSize
    THEN t ELSE last

evictedBySet(c, id, t, last) ==
    IF shouldCleanup(MapSet(c, id, t), t, last) THEN Evicted(MapSet(c, id, t)) ELSE {}

\* Set.delete
QueueDelete(q, id) == SelectSeq(q, LAMBDA x : x # id)

\* getBatch (lines 623-635): the first batchSize ids of the queue
getBatch(q) == SubSeq(q, 1, IF Len(q) < BatchSize THEN Len(q) ELSE BatchSize)

GetFetches(id) == {f \in fetches : f.by = ByGet /\ f.id = id}
DrainFetches(pid) == {f \in fetches : f.by = pid}
FreeTag(id) == CHOOSE t \in 1..(MaxGetFetches + 1) :
                  /\ t \notin {f.tag : f \in GetFetches(id)}
                  /\ \A u \in 1..(t - 1) : u \in {f.tag : f \in GetFetches(id)}
FreePid == CHOOSE p \in 1..(MaxDrains + 1) :
              /\ p \notin {d.pid : d \in drains}
              /\ \A u \in 1..(p - 1) : u \in {d.pid : d \in drains}

\* get, line 508: a fetch registered for the id is returned to the caller
getJoinsNever(id) == FALSE

getJoins(id) == loadingPromises[id] # 0

(***************************************************************************)
(* get(id) (lines 506-532), up to its await.                               *)
(***************************************************************************)
get(id) ==
    /\ IF getJoins(id)
       THEN \E f \in GetFetches(id) :
              /\ f.tag = loadingPromises[id]
              /\ f.waiters < MaxWaiters
              /\ fetches' = (fetches \ {f}) \cup {[f EXCEPT !.waiters = @ + 1]}
              /\ UNCHANGED <<cache, loadingPromises>>
       ELSE IF id \in CacheIds(cache)
       THEN /\ cache' = [cache EXCEPT ![IndexOf(cache, id)].lastAccessed = now]
            /\ UNCHANGED <<fetches, loadingPromises>>
       ELSE /\ Cardinality(GetFetches(id)) < MaxGetFetches
            /\ fetches' = fetches \cup
                 {[id |-> id, by |-> ByGet, tag |-> FreeTag(id), waiters |-> 1]}
            /\ loadingPromises' = [loadingPromises EXCEPT ![id] = FreeTag(id)]
            /\ UNCHANGED cache
    /\ UNCHANGED <<preloadQueue, isLoading, lastCleanup, now, drains, lastEvicted>>
    /\ UNCHANGED nonCacheVars

\* get after its await: the fetch settles, the content is stored when it
\* succeeded, and the finally block deletes the id's loadingPromises entry
getFetchSettles(f, ok) ==
    /\ f \in fetches
    /\ f.by = ByGet
    /\ fetches' = fetches \ {f}
    /\ cache' = IF ok THEN cacheAfterSet(cache, f.id, now, lastCleanup) ELSE cache
    /\ lastCleanup' = IF ok THEN lastCleanupAfterSet(cache, f.id, now, lastCleanup)
                      ELSE lastCleanup
    /\ loadingPromises' = [loadingPromises EXCEPT ![f.id] = 0]
    /\ lastEvicted' = IF ok THEN evictedBySet(cache, f.id, now, lastCleanup)
                      ELSE lastEvicted
    /\ UNCHANGED <<preloadQueue, isLoading, now, drains>>
    /\ UNCHANGED nonCacheVars

\* set(id, content) called directly
set(id) ==
    /\ cache' = cacheAfterSet(cache, id, now, lastCleanup)
    /\ lastCleanup' = lastCleanupAfterSet(cache, id, now, lastCleanup)
    /\ lastEvicted' = evictedBySet(cache, id, now, lastCleanup)
    /\ UNCHANGED <<preloadQueue, loadingPromises, isLoading, now, fetches, drains>>
    /\ UNCHANGED nonCacheVars

Tick ==
    /\ now < MaxClock
    /\ now' = now + 1
    /\ UNCHANGED <<cache, preloadQueue, loadingPromises, isLoading, lastCleanup,
                   fetches, drains, lastEvicted>>
    /\ UNCHANGED nonCacheVars

(***************************************************************************)
(* The preload queue.                                                      *)
(***************************************************************************)
\* arguments of preloadContent: arrays of distinct ids
PreloadArgs ==
    {q \in UNION {[1..n -> Ids] : n \in 1..MaxPreloadArgs} :
        \A i, j \in 1..Len(q) : i # j => q[i] # q[j]}

\* preloadContent, lines 566-570: ids neither cached nor queued are added,
\* in the order of the array
RECURSIVE Enqueue(_, _, _)
Enqueue(q, c, ids) ==
    IF ids = <<>> THEN q
    ELSE Enqueue(IF Head(ids) \notin CacheIds(c) /\ Head(ids) \notin QueueIds(q)
                 THEN Append(q, Head(ids)) ELSE q,
                 c, Tail(ids))

\* processPreloadQueue, line 592: the loop condition, on the batch that
\* line 589 took before the loop
loopContinues(batch) == Len(batch) > 0

\* one pass of the while loop body to its await (lines 593-604): a fetch
\* is started for every member of the batch
startRound(fs, pid, batch) ==
    fs \cup {[id |-> batch[i], by |-> pid, tag |-> 0, waiters |-> 0] : i \in 1..Len(batch)}

\* preloadContent(ids) (lines 561-576) with the processPreloadQueue call it
\* makes (lines 582-604), on the queue q and the flag loading
preloadContentOn(q, loading, ids, ds, fs) ==
    LET q2 == Enqueue(q, cache', ids)
        starts == ~loading /\ Len(q2) > 0
        batch == getBatch(q2)
    IN  /\ preloadQueue' = q2
        /\ IF starts
           THEN /\ Cardinality(ds) < MaxDrains
                /\ isLoading' = TRUE
                /\ drains' = ds \cup {[pid |-> FreePid, batch |-> batch,
                                       phase |-> "fetching"]}
                /\ fetches' = startRound(fs, FreePid, batch)
           ELSE /\ isLoading' = loading
                /\ drains' = ds
                /\ fetches' = fs

preloadContent(ids) ==
    /\ cache' = cache
    /\ preloadContentOn(preloadQueue, isLoading, ids, drains, fetches)
    /\ UNCHANGED <<loadingPromises, lastCleanup, now, lastEvicted>>
    /\ UNCHANGED nonCacheVars

\* clear (lines 739-751): the drains and the fetches in flight are not told
clear ==
    /\ cache' = <<>>
    /\ preloadQueue' = <<>>
    /\ loadingPromises' = [id \in Ids |-> 0]
    /\ isLoading' = FALSE
    /\ lastCleanup' = now
    /\ UNCHANGED <<now, fetches, drains, lastEvicted>>
    /\ UNCHANGED nonCacheVars

\* the state's data when init runs: without an id (a d3 hierarchy root has
\* none), or with one
RootData == {NULL, RootId}

\* init (lines 490-499): clear, then preloadContent of the data's id when
\* it has one; with no id nothing is enqueued and no drain starts
init ==
    \E r \in RootData :
        /\ cache' = <<>>
        /\ loadingPromises' = [id \in Ids |-> 0]
        /\ lastCleanup' = now
        /\ preloadContentOn(<<>>, FALSE, IF r = NULL THEN <<>> ELSE <<r>>,
                            drains, fetches)
        /\ UNCHANGED <<now, lastEvicted>>
        /\ UNCHANGED nonCacheVars

\* the while loop from its top (line 592), for drain d: another round of
\* fetches for the batch, or the end of the call and isLoading = false
loopAgain(d, fs, loading) ==
    IF loopContinues(d.batch)
    THEN /\ fetches' = startRound(fs, d.pid, d.batch)
         /\ drains' = (drains \ {d}) \cup {[d EXCEPT !.phase = "fetching"]}
         /\ isLoading' = loading
    ELSE /\ fetches' = fs
         /\ drains' = drains \ {d}
         /\ isLoading' = FALSE

\* a fetch of a drain settles (lines 594-601): the content is stored when
\* it succeeded, the id leaves the queue either way.  When it was the last
\* of its round, Promise.all resolves: the drain waits preloadDelay when
\* the queue is not empty (lines 607-611), and takes the loop again
\* at once when it is.
preloadFetchSettles(f, ok) ==
    /\ f \in fetches
    /\ f.by # ByGet
    /\ cache' = IF ok THEN cacheAfterSet(cache, f.id, now, lastCleanup) ELSE cache
    /\ lastCleanup' = IF ok THEN lastCleanupAfterSet(cache, f.id, now, lastCleanup)
                      ELSE lastCleanup
    /\ lastEvicted' = IF ok THEN evictedBySet(cache, f.id, now, lastCleanup)
                      ELSE lastEvicted
    /\ preloadQueue' = QueueDelete(preloadQueue, f.id)
    /\ LET d == CHOOSE x \in drains : x.pid = f.by
       IN  IF DrainFetches(f.by) # {f}
           THEN /\ fetches' = fetches \ {f}
                /\ UNCHANGED <<drains, isLoading>>
           ELSE IF Len(preloadQueue') > 0
           THEN /\ fetches' = fetches \ {f}
                /\ drains' = (drains \ {d}) \cup {[d EXCEPT !.phase = "delay"]}
                /\ isLoading' = isLoading
           ELSE loopAgain(d, fetches \ {f}, isLoading)
    /\ UNCHANGED <<loadingPromises, now>>
    /\ UNCHANGED nonCacheVars

\* the setTimeout of lines 608-610 fires
delayElapsed(d) ==
    /\ d \in drains
    /\ d.phase = "delay"
    /\ loopAgain(d, fetches, isLoading)
    /\ UNCHANGED <<cache, preloadQueue, loadingPromises, lastCleanup, now, lastEvicted>>
    /\ UNCHANGED nonCacheVars

(***************************************************************************)
(* Resize handling: DisplayManager (part_001:9-247) and                    *)
(* CircularNavManager.handleResize.  Both managers wrap their handleResize *)
(* in a debounce and register it on the window.                            *)
(***************************************************************************)
\* config.dimensions.min
MinWidth == 800
MinHeight == 600

\* hasSignificantChanges: threshold = 0.01, as the divisor 1/0.01
ThresholdInverse == 100

\* container rectangles and window sizes a resize can leave behind
Viewports ==
    [width : {1000, 1005, 1050}, height : {600, 660},
     innerWidth : {1100, 2000}, innerHeight : {1000}]

\* this.lastDimensions = null
NoDimensions == [width |-> 0, height |-> 0]

Min(a, b) == IF a < b THEN a ELSE b
Max(a, b) == IF a > b THEN a ELSE b
Abs(a) == IF a < 0 THEN -a ELSE a

\* calculateWidth (lines 72-77): at least min.width, at most 90% of the window
calculateWidth(v) == Min(Max(v.width, MinWidth), (v.innerWidth * 9) \div 10)

\* calculateHeight (lines 83-88): at least min.height, at most 70% of the window
calculateHeight(v) == Min(Max(v.height, MinHeight), (v.innerHeight * 7) \div 10)

\* calculateDimensions (lines 36-53): the width and height it returns
calculateDimensions(v) == [width |-> calculateWidth(v), height |-> calculateHeight(v)]

\* hasSignificantChanges (lines 228-237) of newDims against the stored value
hasSignificantChanges(newDims, last) ==
    IF last = NoDimensions THEN TRUE
    ELSE \/ ThresholdInverse * Abs(newDims.width - last.width) > last.width
         \/ ThresholdInverse * Abs(newDims.height - last.height) > last.height

\* DisplayManager.setup (lines 26-30)
setup ==
    /\ lastDimensions' = calculateDimensions(viewport)
    /\ resizeListeners' = resizeListeners \cup {"display"}
    /\ UNCHANGED <<viewport, resizeTimers, viewBox, lastResize>>
    /\ UNCHANGED nonDispVars

\* CircularNavManager.setupEventListeners, line 107
setupEventListeners ==
    /\ resizeListeners' = resizeListeners \cup {"nav"}
    /\ UNCHANGED <<viewport, lastDimensions, resizeTimers, viewBox, lastResize>>
    /\ UNCHANGED nonDispVars

\* a resize event of the window: every registered handler's debounce timer
\* starts again
windowResize(v) ==
    /\ v # viewport
    /\ viewport' = v
    /\ resizeTimers' = resizeListeners
    /\ UNCHANGED <<lastDimensions, resizeListeners, viewBox, lastResize>>
    /\ UNCHANGED nonDispVars

\* DisplayManager.handleResize (lines 213-222) when its timer fires.
\* calculateDimensions has stored its result in this.lastDimensions
\* (line 51) before hasSignificantChanges reads this.lastDimensions.
displayHandleResize ==
    /\ "display" \in resizeTimers
    /\ resizeTimers' = resizeTimers \ {"display"}
    /\ LET newDimensions == calculateDimensions(viewport)
           stored == newDimensions
           significant == hasSignificantChanges(newDimensions, stored)
       IN  /\ lastDimensions' = stored
           /\ viewBox' = IF significant THEN newDimensions ELSE viewBox
           /\ lastResize' = [handler |-> "display", from |-> lastDimensions,
                             to |-> newDimensions, relayout |-> significant]
    /\ UNCHANGED <<viewport, resizeListeners>>
    /\ UNCHANGED nonDispVars

\* CircularNavManager.handleResize (lines 148-153) when its timer fires
navHandleResize ==
    /\ "nav" \in resizeTimers
    /\ resizeTimers' = resizeTimers \ {"nav"}
    /\ IF Truthy(StateManagerMember("isDestroying"))
       THEN UNCHANGED <<lastDimensions, viewBox, lastResize>>
       ELSE LET dimensions == calculateDimensions(viewport)
            IN  /\ lastDimensions' = dimensions
                /\ viewBox' = dimensions
                /\ lastResize' = [handler |-> "nav", from |-> lastDimensions,
                                  to |-> dimensions, relayout |-> TRUE]
    /\ UNCHANGED <<viewport, resizeListeners>>
    /\ UNCHANGED nonDispVars

(***************************************************************************)
(* The layout engine: processHierarchicalData, processDepthNodes and       *)
(* calculateAverageAngle (utils/calculations, dom.js:232-287).             *)
(*                                                                         *)
(* A hierarchy of three depths is the sequence of the numbers of children  *)
(* of its depth-1 nodes.  Node [p, c] is the root for p = 0, the p-th      *)
(* depth-1 node for c = 0, and that node's c-th child otherwise.           *)
(*                                                                         *)
(* Angles are exact: whole multiples of a unit that divides every angle    *)
(* the engine computes, 2*pi being FullTurn units.                         *)
(***************************************************************************)
RECURSIVE Gcd(_, _)
Gcd(a, b) == IF b = 0 THEN a ELSE Gcd(b, a % b)

RECURSIVE Lcm(_)
Lcm(n) == IF n <= 1 THEN 1 ELSE (Lcm(n - 1) * n) \div Gcd(Lcm(n - 1), n)

\* 2 * Math.PI and Math.PI
FullTurn == 2 * Lcm(MaxParents * MaxChildren) * Slices
PI == FullTurn \div 2

Hierarchies == UNION {[1..k -> 0..MaxChildren] : k \in 0..MaxParents}

Root == [p |-> 0, c |-> 0]
HNodes(h) == {Root} \cup UNION {{[p |-> i, c |-> j] : j \in 0..h[i]} : i \in 1..Len(h)}
nodeDepth(n) == IF n.p = 0 THEN 0 ELSE IF n.c = 0 THEN 1 ELSE 2
\* no node: null, as in root.parent and in a selection of nothing
NoNode == [p |-> 0 - 1, c |-> 0 - 1]
parentOf(n) ==
    IF n = Root \/ n = NoNode THEN NoNode
    ELSE IF n.c = 0 THEN Root ELSE [p |-> n.p, c |-> 0]

\* node.children, in order
children(h, n) ==
    IF n = Root THEN [i \in 1..Len(h) |-> [p |-> i, c |-> 0]]
    ELSE IF n.c = 0 THEN [j \in 1..h[n.p] |-> [p |-> n.p, c |-> j]]
    ELSE <<>>

RECURSIVE grandchildren(_, _)
grandchildren(h, i) ==
    IF i > Len(h) THEN <<>>
    ELSE children(h, [p |-> i, c |-> 0]) \o grandchildren(h, i + 1)

\* root.descendants(): breadth first, the root, its children, their children
descendants(h) == <<Root>> \o children(h, Root) \o grandchildren(h, 1)

SeqIndex(q, e) == CHOOSE i \in 1..Len(q) : q[i] = e
Range(q) == {q[i] : i \in 1..Len(q)}

\* d3.tree().size([2 * Math.PI, 1]) (lines 236-240) gives every node an x
\* and a y that depend on the hierarchy alone.  The x is kept as a code for
\* "the tree layout's x of this node", a negative number no angle equals;
\* the y is the node's depth over the height of the tree.
treeHeight(h) ==
    IF Len(h) = 0 THEN 0 ELSE IF \E i \in 1..Len(h) : h[i] > 0 THEN 2 ELSE 1
treeX(h) ==
    LET order == descendants(h)
    IN  [n \in HNodes(h) |-> 0 - SeqIndex(order, n)]
treeY(h) == [n \in HNodes(h) |-> [num |-> nodeDepth(n), den |-> Max(treeHeight(h), 1)]]

SetMin(S) == CHOOSE a \in S : \A b \in S : a <= b
SetMax(S) == CHOOSE a \in S : \A b \in S : a >= b

\* calculateAverageAngle, line 282: the wrap-around test
wrapsNever(minAngle, maxAngle) == FALSE

wraps(minAngle, maxAngle) == maxAngle - minAngle > PI

\* calculateAverageAngle (lines 278-287)
calculateAverageAngleLowest(angles) == SetMin(angles)

calculateAverageAngle(angles) ==
    LET minAngle == SetMin(angles)
        maxAngle == SetMax(angles)
    IN  IF wraps(minAngle, maxAngle)
        THEN ((minAngle + maxAngle + FullTurn) \div 2) % FullTurn
        ELSE (minAngle + maxAngle) \div 2

\* processDepthNodes, lines 254-260
depthTwoNodes(h) == SelectSeq(descendants(h), LAMBDA n : nodeDepth(n) = 2)
angleStep(count) == FullTurn \div count

depthTwoAngleFromOne(i, count) == (i + 1) * angleStep(count)

depthTwoAngle(i, count) == i * angleStep(count)

depthTwoAngleTurning(i, count) == ((i + layoutRuns) * angleStep(count)) % FullTurn

\* the angle given to the i-th depth-2 node (i from 0) in this run
depthTwoAngleOfRun(i, count) == depthTwoAngle(i, count)

\* processDepthNodes, lines 263-271: the angle given to a depth-1 node
\* that has children, from the angles its children have by then
depthOneAngleFirstChild(h, x, n) == x[children(h, n)[1]]

depthOneAngle(h, x, n) == calculateAverageAngle({x[c] : c \in Range(children(h, n))})

\* processDepthNodes (lines 252-272) on the x of the tree layout
processDepthNodes(h, x) ==
    LET two == depthTwoNodes(h)
        x1 == IF Len(two) > 0
              THEN [n \in HNodes(h) |->
                      IF nodeDepth(n) = 2
                      THEN depthTwoAngleOfRun(SeqIndex(two, n) - 1, Len(two))
                      ELSE x[n]]
              ELSE x
    IN  [n \in HNodes(h) |->
           IF nodeDepth(n) = 1 /\ Len(children(h, n)) > 0
           THEN depthOneAngle(h, x1, n)
           ELSE x1[n]]

\* processHierarchicalData(data) (lines 232-246), as VisualizationManager
\* .update runs it on the data it is given
processHierarchicalData(h) ==
    /\ layoutRuns < MaxLayoutRuns
    /\ data' = h
    /\ nodeX' = processDepthNodes(h, treeX(h))
    /\ nodeY' = treeY(h)
    /\ layoutRuns' = layoutRuns + 1
    /\ lastRunRepeated' = (layoutRuns > 0 /\ h = data)
    /\ UNCHANGED lastAverage
    /\ UNCHANGED nonLayoutVars

\* directions calculateAverageAngle is called with
AngleSamples == {k * (FullTurn \div Slices) : k \in 0..(Slices - 1)}
AngleArgs == UNION {[1..k -> AngleSamples] : k \in 1..MaxAngles}

\* a call of calculateAverageAngle; the function keeps nothing between
\* calls, so one call per behaviour covers every argument
averageAngle(angles) ==
    /\ lastAverage.list = <<>>
    /\ lastAverage' = [angles |-> Range(angles), list |-> angles,
                       result |-> calculateAverageAngle(Range(angles))]
    /\ UNCHANGED <<data, nodeX, nodeY, layoutRuns, lastRunRepeated>>
    /\ UNCHANGED nonLayoutVars

(***************************************************************************)
(* Classification of nodes and links against the selection:                *)
(* NodeManager.isActiveNode / isSiblingNode (NodeManager.js:120-130) and   *)
(* PathManager.isActivePath / isSiblingPath / getPathOpacity /             *)
(* getInitialOpacity (PathManager.js:82-188).  The functions are applied   *)
(* to every node and link of the hierarchy; NodeManager itself binds the   *)
(* nodes of depth 0 and 1.                                                 *)
(***************************************************************************)
\* data.links(): one link into every node but the root
Links(h) == {[source |-> parentOf(n), target |-> n] : n \in HNodes(h) \ {Root}}

\* isActiveNode (lines 120-125)
isActiveNodeSelf(node, selNode) ==
    IF selNode = NoNode THEN nodeDepth(node) = 0 ELSE node = selNode

isActiveNode(node, selNode) ==
    IF selNode = NoNode THEN nodeDepth(node) = 0
    ELSE \/ node = selNode
         \/ parentOf(selNode) # NoNode /\ node = parentOf(selNode)
         \/ nodeDepth(node) = 0

\* isSiblingNode (lines 127-130)
isSiblingNodeAnyOther(node, selNode) ==
    IF selNode = NoNode THEN FALSE ELSE node # selNode

isSiblingNode(node, selNode) ==
    IF selNode = NoNode \/ nodeDepth(node) = 0 THEN FALSE
    ELSE parentOf(node) = parentOf(selNode) /\ node # selNode

\* isActivePath (lines 111-131)
isActivePath(link, selNode) ==
    IF selNode = NoNode THEN FALSE
    ELSE IF nodeDepth(selNode) = 0 THEN TRUE
    ELSE IF nodeDepth(selNode) = 1
    THEN \/ /\ parentOf(selNode) # NoNode
            /\ link.source = parentOf(selNode)
            /\ link.target = selNode
         \/ link.source = selNode
    ELSE \/ link.target = selNode
         \/ parentOf(selNode) # NoNode /\ link.source = parentOf(selNode)
         \/ /\ parentOf(parentOf(selNode)) # NoNode
            /\ link.source = parentOf(parentOf(selNode))
            /\ link.target = parentOf(selNode)

\* isSiblingPath (lines 133-153)
isSiblingPathOfParent(link, selNode) ==
    /\ selNode # NoNode
    /\ parentOf(selNode) # NoNode
    /\ link.source = parentOf(selNode)
    /\ link.target # selNode

isSiblingPath(link, selNode) ==
    IF selNode = NoNode THEN FALSE
    ELSE IF nodeDepth(selNode) = 1
    THEN /\ parentOf(selNode) # NoNode
         /\ link.source = parentOf(selNode)
         /\ link.target # selNode
    ELSE IF nodeDepth(selNode) = 2
    THEN \/ /\ parentOf(selNode) # NoNode
            /\ link.source = parentOf(selNode)
            /\ link.target # selNode
         \/ /\ parentOf(parentOf(selNode)) # NoNode
            /\ link.source # parentOf(parentOf(selNode))
            /\ nodeDepth(link.target) = 2
            /\ link.target # selNode
    ELSE FALSE

\* getInitialOpacity (lines 82-86)
getInitialOpacity(link) ==
    IF nodeDepth(link.source) = 0 THEN 1
    ELSE IF nodeDepth(link.source) = 1 /\ nodeDepth(link.target) = 2 THEN 0
    ELSE 1

\* getPathOpacity (lines 175-188)
getPathOpacityShown(link, selNode) == 1

getPathOpacity(link, selNode) ==
    IF nodeDepth(link.source) = 1 /\ nodeDepth(link.target) = 2
    THEN IF selNode # NoNode /\ nodeDepth(selNode) = 0 THEN 1
         ELSE IF selNode # NoNode /\ nodeDepth(selNode) = 1
         THEN IF link.source = selNode THEN 1 ELSE 0
         ELSE IF /\ selNode # NoNode
                 /\ nodeDepth(selNode) = 2
                 /\ parentOf(selNode) # NoNode
         THEN IF link.source = parentOf(selNode) THEN 1 ELSE 0
         ELSE 0
    ELSE 1

\* NodeManager.create and PathManager.create (lines 18-35) on the data h:
\* the links get their initial opacity, no class is set yet
create(h) ==
    /\ bound' = h
    /\ created' = TRUE
    /\ classified' = FALSE
    /\ selected' = NoNode
    /\ activeNodes' = {}
    /\ siblingNodes' = {}
    /\ activeLinks' = {}
    /\ siblingLinks' = {}
    /\ linkOpacity' = [l \in Links(h) |-> getInitialOpacity(l)]
    /\ UNCHANGED nonClassVars

\* VisualizationManager.updateSelection(newNode): updatePathStates
\* (PathManager.js:92-105) and updateNodeStates (NodeManager.js:102-114)
updateSelection(newNode) ==
    /\ created
    /\ classified' = TRUE
    /\ selected' = newNode
    /\ activeNodes' = {n \in HNodes(bound) : isActiveNode(n, newNode)}
    /\ siblingNodes' = {n \in HNodes(bound) : isSiblingNode(n, newNode)}
    /\ activeLinks' = {l \in Links(bound) : isActivePath(l, newNode)}
    /\ siblingLinks' = {l \in Links(bound) : isSiblingPath(l, newNode)}
    /\ linkOpacity' = [l \in Links(bound) |-> getPathOpacity(l, newNode)]
    /\ UNCHANGED <<bound, created>>
    /\ UNCHANGED nonClassVars

(***************************************************************************)
(* CircularNavManager.init (CircularNavManager.js:73-99), one manager per  *)
(* container.  init awaits state.initialize(), which awaits               *)
(* fetchInitialData (part_001:292-314): the fetch, then response.json(),   *)
(* then updateState({data}).  Whatever is thrown on the way is rethrown by *)
(* fetchInitialData and lands in init's catch, which calls handleError.    *)
(***************************************************************************)
Containers == 1..MaxInstances

NewManager ==
    [phase |-> "constructed", isInitialized |-> FALSE, isError |-> FALSE,
     error |-> NULL, data |-> NULL, steps |-> {}, events |-> {}]

\* what init runs after state.initialize() has resolved (lines 79-93)
SetupSteps ==
    {"display.setup", "cache.init", "viz.create", "settings.create",
     "controls.create", "setupEventListeners"}

stepsAfterInitializeAlways(failure) == SetupSteps

stepsAfterInitialize(failure) == IF failure = "ok" THEN SetupSteps ELSE {}

\* what fetchInitialData throws once the response body has been read:
\* Error('Data fetch failed') when result.success is false (line 307);
\* otherwise updateState({data}) replaces the state and handleStateChange
\* calls this.handleDataChange (line 357), which the class has or has not
loadFailure(success) ==
    IF ~success THEN "DataFetchError"
    ELSE IF StateManagerMember("handleDataChange") = "function" THEN "ok"
    ELSE "TypeError"

\* handleError (CircularNavManager.js:160-172) on a manager: the state is
\* replaced; errorChange is emitted only when isError was already true
\* (else line 367 throws first); the container event is dispatched
handleErrorOn(m, e) ==
    [m EXCEPT !.isError = TRUE,
              !.error = e,
              !.events = @ \cup {"circular-nav:error"}
                           \cup (IF m.isError THEN {"errorChange"} ELSE {})]

\* init from the end of state.initialize() on: the catch block on a
\* failure, the setup steps and updateState({isInitialized: true}) otherwise
finishInit(m, failure) ==
    IF failure = "ok"
    THEN [m EXCEPT !.phase = "initialized",
                   !.steps = stepsAfterInitialize(failure),
                   !.isInitialized = TRUE]
    ELSE [handleErrorOn(m, failure) EXCEPT !.phase = "failed",
                                           !.steps = stepsAfterInitialize(failure)]

\* init() is called: it runs to the fetch
managerInit(i) ==
    /\ managers[i].phase = "constructed"
    /\ managers' = [managers EXCEPT ![i].phase = "fetching"]
    /\ UNCHANGED nonInitVars

\* the fetch settles: a response, or a rejection (network failure)
fetchInitialDataResponds(i, ok) ==
    /\ managers[i].phase = "fetching"
    /\ managers' = [managers EXCEPT ![i] =
                      IF ok THEN [@ EXCEPT !.phase = "parsing"]
                      ELSE finishInit(@, "NetworkError")]
    /\ UNCHANGED nonInitVars

\* response.json() settles: a result with success true or false, or a
\* rejection (the body is not JSON)
responseJsonSettles(i, parsed, success) ==
    /\ managers[i].phase = "parsing"
    /\ managers' = [managers EXCEPT ![i] =
                      IF ~parsed THEN finishInit(@, "SyntaxError")
                      ELSE finishInit([@ EXCEPT !.data = IF success THEN "hierarchy"
                                                         ELSE NULL],
                                      loadFailure(success))]
    /\ UNCHANGED nonInitVars

(***************************************************************************)
(* Animated transitions (PathManager.js:791-904, NodeManager.js:102-114).  *)
(* A transition is named by the update that created it and the elements it *)
(* animates.  updateSelection animates the links (updatePathStates, the    *)
(* one transition given to trackTransition), the node contents             *)
(* (updateNodeStates) and the outer indicators and labels                  *)
(* (updateForSelection); update with dimensions only animates the svg's    *)
(* viewBox (updateViewBox), the component updates return at once without   *)
(* data.  d3 itself lets a new transition on an element replace the older  *)
(* one on that element.                                                    *)
(***************************************************************************)
Transition(n, target) == [by |-> n, on |-> target]

\* the transitions updateSelection creates, and the ones it tracks
selectionTargets == {"links", "nodes", "outer"}
trackedTargets == {"links"}

\* cancelTransitions (lines 886-893): transition.selection.interrupt() on
\* every tracked transition, then the set is cleared.  d3 is not part of
\* the sources: the call either interrupts the transition or, selection
\* being a method of a d3 transition, throws a TypeError
cancelOutcomes == IF activeTransitions = {} THEN {"ok"} ELSE {"ok", "TypeError"}

\* what is still in flight after cancelTransitions has run and new
\* transitions on the targets have been created
stillRunning(targets) ==
    {t \in running : t \notin activeTransitions /\ t.on \notin targets}

\* a call of update or updateSelection that is past cancelTransitions
VizCall(n, op) == [n |-> n, op |-> op]

\* updateSelection (lines 852-880) up to its await of batchDOMUpdates:
\* cancelTransitions, then this.isTransitioning = true inside the try.  The
\* transitions are created by the batched callback; they are taken to
\* start with the call
vizUpdateSelection ==
    /\ updates < MaxUpdates
    /\ updates' = updates + 1
    /\ \E outcome \in cancelOutcomes :
         IF outcome = "TypeError"
         THEN UNCHANGED <<activeTransitions, running, applied,
                          vizTransitioning, vizCalls>>
         ELSE /\ running' = stillRunning(selectionTargets)
                     \cup {Transition(updates + 1, target) : target \in selectionTargets}
              /\ activeTransitions' =
                     {Transition(updates + 1, target) : target \in trackedTargets}
              /\ applied' = updates + 1
              /\ vizTransitioning' = TRUE
              /\ vizCalls' = vizCalls \cup {VizCall(updates + 1, "updateSelection")}
    /\ UNCHANGED lastCompleted
    /\ UNCHANGED nonTransVars

\* update(null, dimensions) (lines 791-827), as the resize handler and the
\* settings panel call it, up to its await of batchDOMUpdates
vizUpdate ==
    /\ updates < MaxUpdates
    /\ updates' = updates + 1
    /\ \E outcome \in cancelOutcomes :
         IF outcome = "TypeError"
         THEN UNCHANGED <<activeTransitions, running, applied,
                          vizTransitioning, vizCalls>>
         ELSE /\ running' = stillRunning({"svg"}) \cup {Transition(updates + 1, "svg")}
              /\ activeTransitions' = {}
              /\ applied' = updates + 1
              /\ vizTransitioning' = TRUE
              /\ vizCalls' = vizCalls \cup {VizCall(updates + 1, "update")}
    /\ UNCHANGED lastCompleted
    /\ UNCHANGED nonTransVars

\* a transition runs to its end; the 'end' listener of trackTransition
\* (lines 901-903) removes it from the tracked set
transitionEnds(t) ==
    /\ t \in running
    /\ running' = running \ {t}
    /\ activeTransitions' = activeTransitions \ {t}
    /\ lastCompleted' = [by |-> t.by, applied |-> applied]
    /\ UNCHANGED <<updates, applied, vizTransitioning, vizCalls>>
    /\ UNCHANGED nonTransVars

\* the awaited batch of a call is done or has thrown: its finally block
\* sets this.isTransitioning = false (lines 823-826, 876-879)
vizCallEnds(c) ==
    /\ c \in vizCalls
    /\ vizCalls' = vizCalls \ {c}
    /\ vizTransitioning' = FALSE
    /\ UNCHANGED <<activeTransitions, running, updates, applied, lastCompleted>>
    /\ UNCHANGED nonTransVars

(***************************************************************************)
(* DisplayManager.calculateRadius (part_001:94-102).  Radii are kept in    *)
(* twentieths of a pixel, so that 35% and 40% of a length are whole.       *)
(***************************************************************************)
\* config.node.central.minSize
CentralMinSize == 60

Rects == [width : {25 * k : k \in 1..MaxSizeSteps},
          height : {25 * k : k \in 1..MaxSizeSteps}]

\* config.node.central.minSize * 1.5
radiusFloor == CentralMinSize * 30

\* minDimension * 0.35
baseRadius(rect) == 7 * Min(rect.width, rect.height)

\* rect.width * 0.4
radiusCap(rect) == 8 * rect.width

calculateRadiusUnfloored(rect) == Min(baseRadius(rect), radiusCap(rect))

calculateRadius(rect) == Max(radiusFloor, Min(baseRadius(rect), radiusCap(rect)))

\* calculateDimensions computes the radius of the container's rectangle
\* (lines 36-44)
computeRadius(rect) ==
    /\ lastRadius' = [rect |-> rect, radius |-> calculateRadius(rect)]
    /\ UNCHANGED nonRadiusVars

(***************************************************************************)
(* Controls: zoom in, zoom out and reset (part_001:945-1022) under         *)
(* DEFAULT_CONFIG.zoom (config.js:26-31).  A zoom level z is kept as the   *)
(* whole number z * ZoomScale.                                             *)
(***************************************************************************)
\* config.zoom.max
ZoomMax == 3
\* config.zoom.min is 0.5: one over this
ZoomMinInverse == 2
\* config.zoom.step is 0.1: one over this
ZoomStepInverse == 10

RECURSIVE Pow10(_)
Pow10(n) == IF n = 0 THEN 1 ELSE 10 * Pow10(n - 1)

ZoomScale == Pow10(MaxZoomDigits)

\* the levels the model follows: down to one unit, up to ZoomScale
ZoomLevels == 1..(ZoomScale * ZoomScale)

\* currentZoom * step and currentZoom / step
timesStep(z) == z \div ZoomStepInverse
overStep(z) == z * ZoomStepInverse

\* updateZoom (lines 995-1022) up to its await: nothing when the level is
\* the current one, else the level is set and isZooming raised
updateZoom(op, newZoom) ==
    /\ lastZoom' = [op |-> op, from |-> currentZoom, to |-> newZoom]
    /\ IF newZoom = currentZoom
       THEN UNCHANGED <<currentZoom, isZooming>>
       ELSE /\ currentZoom' = newZoom
            /\ isZooming' = TRUE
    /\ UNCHANGED nonZoomVars

\* a zoom operation arriving while isZooming is set returns at once
zoomIgnored(op) ==
    /\ lastZoom' = [op |-> op, from |-> currentZoom, to |-> currentZoom]
    /\ UNCHANGED <<currentZoom, isZooming>>
    /\ UNCHANGED nonZoomVars

\* handleZoomIn (lines 945-954)
handleZoomIn ==
    /\ currentZoom % ZoomStepInverse = 0
    /\ IF isZooming THEN zoomIgnored("in")
       ELSE updateZoom("in", Min(timesStep(currentZoom), ZoomMax * ZoomScale))

\* handleZoomOut (lines 960-969)
handleZoomOut ==
    /\ overStep(currentZoom) \in ZoomLevels
    /\ IF isZooming THEN zoomIgnored("out")
       ELSE updateZoom("out", Max(overStep(currentZoom), ZoomScale \div ZoomMinInverse))

\* handleReset (lines 975-978)
handleReset ==
    IF isZooming THEN zoomIgnored("reset") ELSE updateZoom("reset", ZoomScale)

\* the timer updateZoom awaits has fired: the finally block (line 1020)
zoomAnimationEnds ==
    /\ isZooming
    /\ isZooming' = FALSE
    /\ UNCHANGED <<currentZoom, lastZoom>>
    /\ UNCHANGED nonZoomVars

SelInit ==
    /\ selectedNode = NULL
    /\ previousNode = NULL
    /\ isTransitioning = FALSE
    /\ isError = FALSE
    /\ error = NULL
    /\ contentLoaded = {}
    /\ inFlight = <<>>
    /\ notified = {}
    /\ lastEvent = [op |-> "none", node |-> NULL, wasTransitioning |-> FALSE]

CacheInit ==
    /\ cache = <<>>
    /\ preloadQueue = <<>>
    /\ loadingPromises = [id \in Ids |-> 0]
    /\ isLoading = FALSE
    /\ lastCleanup = 0
    /\ now = 0
    /\ fetches = {}
    /\ drains = {}
    /\ lastEvicted = {}

\* the page before DisplayManager.setup: a 1000 x 600 container
DispInit ==
    /\ viewport = [width |-> 1000, height |-> 600, innerWidth |-> 2000,
                   innerHeight |-> 1000]
    /\ lastDimensions = NoDimensions
    /\ resizeListeners = {}
    /\ resizeTimers = {}
    /\ viewBox = NoDimensions
    /\ lastResize = [handler |-> "none", from |-> NoDimensions,
                     to |-> NoDimensions, relayout |-> FALSE]

\* no data yet: state.data is null and nothing is laid out
LayoutInit ==
    /\ data = <<>>
    /\ nodeX = <<>>
    /\ nodeY = <<>>
    /\ layoutRuns = 0
    /\ lastRunRepeated = FALSE
    /\ lastAverage = [angles |-> {}, list |-> <<>>, result |-> 0]

\* nothing created yet
ClassInit ==
    /\ bound = <<>>
    /\ created = FALSE
    /\ classified = FALSE
    /\ selected = NoNode
    /\ activeNodes = {}
    /\ siblingNodes = {}
    /\ activeLinks = {}
    /\ siblingLinks = {}
    /\ linkOpacity = <<>>

TransInit ==
    /\ activeTransitions = {}
    /\ running = {}
    /\ updates = 0
    /\ applied = 0
    /\ lastCompleted = [by |-> 0, applied |-> 0]
    /\ vizTransitioning = FALSE
    /\ vizCalls = {}

RadiusInit == lastRadius = [rect |-> [width |-> 0, height |-> 0], radius |-> 0]

ZoomInit ==
    /\ currentZoom = ZoomScale
    /\ isZooming = FALSE
    /\ lastZoom = [op |-> "none", from |-> ZoomScale, to |-> ZoomScale]

ManagersInit == managers = [i \in Containers |-> NewManager]

Init == SelInit /\ CacheInit /\ DispInit /\ LayoutInit /\ ClassInit /\ ManagersInit /\ TransInit /\ RadiusInit /\ ZoomInit

SelectionNext ==
    \/ \E n \in Nodes : nodeClick(n)
    \/ \E n \in Nodes : nodeKeydown(n)
    \/ \E n \in Nodes : elementClick(n)
    \/ \E n \in Nodes \cup {NULL} : containerNodeClick(n)
    \/ \E n \in Nodes : updateState(n)
    \/ resumeSelectionChange

SelectionSpec == Init /\ [][SelectionNext]_vars

\* get calls, direct set calls and the clock
GetNext ==
    \/ \E id \in Ids : get(id)
    \/ \E f \in fetches, ok \in BOOLEAN : getFetchSettles(f, ok)
    \/ \E id \in Ids : set(id)
    \/ Tick

GetSpec == Init /\ [][GetNext]_vars

\* the preload queue and its drain
DrainNext ==
    \/ \E ids \in PreloadArgs : preloadContent(ids)
    \/ \E f \in fetches, ok \in BOOLEAN : preloadFetchSettles(f, ok)
    \/ \E d \in drains : delayElapsed(d)

DrainSpec == Init /\ [][DrainNext]_vars

\* every fetch is answered or fails in the end, and every timer fires
FairDrainSpec ==
    /\ DrainSpec
    /\ WF_vars(\E f \in fetches, ok \in BOOLEAN : preloadFetchSettles(f, ok))
    /\ WF_vars(\E d \in drains : delayElapsed(d))

\* the preload queue with clear and init
PreloadNext ==
    \/ \E ids \in PreloadArgs : preloadContent(ids)
    \/ \E f \in fetches, ok \in BOOLEAN : preloadFetchSettles(f, ok)
    \/ \E d \in drains : delayElapsed(d)
    \/ clear
    \/ init

PreloadSpec == Init /\ [][PreloadNext]_vars

\* get calls beside the preload queue
CoalesceNext ==
    \/ \E id \in Ids : get(id)
    \/ \E f \in fetches, ok \in BOOLEAN : getFetchSettles(f, ok)
    \/ \E ids \in PreloadArgs : preloadContent(ids)
    \/ \E f \in fetches, ok \in BOOLEAN : preloadFetchSettles(f, ok)
    \/ \E d \in drains : delayElapsed(d)

CoalesceSpec == Init /\ [][CoalesceNext]_vars

\* what follows an await always runs: the microtask queue is drained
FairSelectionSpec == SelectionSpec /\ WF_vars(resumeSelectionChange)

\* window resizes and the two debounced handlers
ResizeNext ==
    \/ setup
    \/ setupEventListeners
    \/ \E v \in Viewports : windowResize(v)
    \/ displayHandleResize
    \/ navHandleResize

ResizeSpec == Init /\ [][ResizeNext]_vars

\* the layout engine on every hierarchy
LayoutNext == \E h \in Hierarchies : processHierarchicalData(h)

LayoutSpec == Init /\ [][LayoutNext]_vars

\* calculateAverageAngle on every set of sampled directions
AngleNext == lastAverage.list = <<>> /\ \E angles \in AngleArgs : averageAngle(angles)

AngleSpec == Init /\ [][AngleNext]_vars

\* every hierarchy, and every selection in it
ClassifyNext ==
    \/ \E h \in Hierarchies : create(h)
    \/ \E n \in HNodes(bound) \cup {NoNode} : updateSelection(n)

ClassifySpec == Init /\ [][ClassifyNext]_vars

\* every container's manager is initialised, with every outcome of the load
ManagerInitNext ==
    \/ \E i \in Containers : managerInit(i)
    \/ \E i \in Containers, ok \in BOOLEAN : fetchInitialDataResponds(i, ok)
    \/ \E i \in Containers, parsed \in BOOLEAN, success \in BOOLEAN :
          responseJsonSettles(i, parsed, success)

ManagerInitSpec == Init /\ [][ManagerInitNext]_vars

\* selection updates, resize updates and transitions ending, in any order
TransitionNext ==
    \/ vizUpdateSelection
    \/ vizUpdate
    \/ \E t \in running : transitionEnds(t)
    \/ \E c \in vizCalls : vizCallEnds(c)

TransitionSpec == Init /\ [][TransitionNext]_vars

\* the radius of every container rectangle
RadiusNext == \E rect \in Rects : computeRadius(rect)

RadiusSpec == Init /\ [][RadiusNext]_vars

\* the zoom buttons and keys, and the end of the zoom animation
ZoomNext ==
    \/ handleZoomIn
    \/ handleZoomOut
    \/ handleReset
    \/ zoomAnimationEnds

ZoomSpec == Init /\ [][ZoomNext]_vars

(***************************************************************************)
(* Selection claims.                                                       *)
(***************************************************************************)
SelectIssued(n) ==
    nodeClick(n) \/ nodeKeydown(n) \/ elementClick(n) \/ containerNodeClick(n)

\* C1: a select issued while isTransitioning is true (a mouse click, the
\* keyboard Enter/Space, or a node:click event) is a no-op: the current and
\* the previous selection and the flag stay as they were, and no further
\* selection transition is started.
C1_SelectRejectedWhileTransitioning ==
    [][\A n \in Nodes :
         (isTransitioning /\ SelectIssued(n))
            => UNCHANGED <<selectedNode, previousNode, isTransitioning, inFlight>>]_vars

\* a key press arrived while a selection change was suspended, and was dropped
C1_Witness ==
    /\ lastEvent.op = "keydown"
    /\ lastEvent.wasTransitioning
    /\ isTransitioning
    /\ inFlight # <<>>
    /\ lastEvent.node # selectedNode

\* C2: a select issued while the coordinator is idle, for a node other than
\* the current selection, is accepted: the flag becomes true and the node
\* becomes the current selection.
C2_SelectAcceptedWhenIdle ==
    [][\A n \in Nodes :
         (~isTransitioning /\ n # selectedNode /\ SelectIssued(n))
            => (isTransitioning' /\ selectedNode' = n)]_vars

\* C3: every accepted selection change returns the coordinator to idle, also
\* when the preload or the visual update fails; the failure is surfaced
\* (error state and the container's error event) and the flag is not left
\* true.
C3_ReturnsToIdle ==
    /\ (inFlight # <<>>) ~> (~isTransitioning)
    /\ [][resumeSelectionChange
            => /\ ~isTransitioning'
               /\ (error' # NULL => isError' /\ "circular-nav:error" \in notified')]_vars

\* a selection change whose preload failed has ended: idle, error surfaced
C3_Witness ==
    /\ lastEvent.op = "resume"
    /\ selectedNode = lastEvent.node
    /\ inFlight = <<>>
    /\ ~isTransitioning
    /\ isError
    /\ "circular-nav:error" \in notified

(***************************************************************************)
(* Cache claims.                                                           *)
(***************************************************************************)
FetchesOf(id) == {f \in fetches : f.id = id}
PreloadFetchesOf(id) == {f \in fetches : f.id = id /\ f.by # ByGet}

\* C4: get calls for the same uncached id that overlap are served by one
\* fetch: at most one fetch is in flight for the id, it is the one
\* registered in loadingPromises, and every caller waits on it.
C4_OverlappingGetsShareOneFetch ==
    \A id \in Ids :
        /\ Cardinality(FetchesOf(id)) <= 1
        /\ \A f \in FetchesOf(id) :
              /\ f.by = ByGet
              /\ f.waiters >= 1
              /\ loadingPromises[id] = f.tag

\* two callers wait on the one fetch of an id that is not cached
C4_Witness ==
    \E f \in fetches :
        /\ f.waiters = 2
        /\ f.id \notin CacheIds(cache)
        /\ FetchesOf(f.id) = {f}

\* C5: in every interleaving of get, preload and clear at most one fetch
\* for a given id is in flight, whoever started it.
C5_OneFetchPerId ==
    \A id \in Ids : \A f, g \in FetchesOf(id) : f = g

\* C6: once a set call has returned the cache holds at most maxSize entries.
C6_SizeWithinMaxSize == Len(cache) <= MaxSize

\* a set call into a full cache has returned, after evicting
C6_Witness ==
    /\ lastEvicted # {}
    /\ Len(cache) = MaxSize

\* C7: eviction is least recently accessed first, a get hit counting as an
\* access: no entry that leaves the cache was accessed later than an entry
\* that stays; and with room for two entries, a inserted before b and
\* accessed after it, inserting c leaves exactly a and c.
C7_EvictsLeastRecentlyAccessed ==
    [][/\ \A i \in 1..Len(cache) :
            cache[i].id \notin CacheIds(cache')
               => \A k \in 1..Len(cache') :
                     cache[i].lastAccessed <= cache'[k].lastAccessed
       /\ (/\ MaxSize = 2
           /\ Len(cache) = 2
           /\ cache[1].id = "a"
           /\ cache[2].id = "b"
           /\ cache[1].lastAccessed > cache[2].lastAccessed
           /\ "c" \in CacheIds(cache'))
          => CacheIds(cache') = {"a", "c"}]_vars

\* a (inserted at 0, read again later) and c are cached, b was evicted
C7_Witness ==
    /\ lastEvicted = {"b"}
    /\ Len(cache) = 2
    /\ cache[1].id = "a"
    /\ cache[1].added < cache[1].lastAccessed
    /\ cache[2].id = "c"
    /\ cache[1].lastAccessed < cache[2].lastAccessed

\* C8: at most one preload drain runs at any time, whatever preload, init
\* and clear calls arrive while batches are in flight.
C8_OneDrain == Cardinality(drains) <= 1

\* C9: an id leaves the queue when its preload fetch settles, and the drain
\* does not fetch it again: every preload fetch in flight is for an id
\* that is still queued, and no id has two of them.
C9_FetchedOncePerEnqueue ==
    \A id \in Ids :
        /\ Cardinality(PreloadFetchesOf(id)) <= 1
        /\ PreloadFetchesOf(id) # {} => id \in QueueIds(preloadQueue)

\* C10: every id enqueued by preload is eventually fetched by the drain,
\* the ids beyond the first batch in a later batch.
C10_EveryQueuedIdIsFetched ==
    \A id \in Ids :
        (id \in QueueIds(preloadQueue)) ~> (PreloadFetchesOf(id) # {})

(***************************************************************************)
(* Resize claims.                                                          *)
(***************************************************************************)
\* the newly computed width or height is more than 1% away from the last
Significant(from, to) ==
    \/ 100 * Abs(to.width - from.width) > from.width
    \/ 100 * Abs(to.height - from.height) > from.height

\* C11: when a resize handler runs after the debounce period, it re-lays
\* out if and only if the width or the height it computed differs from the
\* last computed one by more than 1%.
C11_RelayoutIffSignificant ==
    (lastResize.handler # "none" /\ lastResize.from # NoDimensions)
        => (lastResize.relayout <=> Significant(lastResize.from, lastResize.to))

(***************************************************************************)
(* Layout claims.                                                          *)
(***************************************************************************)
DepthTwo(h) == {n \in HNodes(h) : nodeDepth(n) = 2}

\* how many depth-2 nodes come before n: those of the parents before its
\* own, and its earlier siblings
RECURSIVE ChildrenBefore(_, _)
ChildrenBefore(h, i) == IF i <= 1 THEN 0 ELSE h[i - 1] + ChildrenBefore(h, i - 1)
Rank(h, n) == ChildrenBefore(h, n.p) + n.c - 1

\* C12: with N >= 1 depth-2 nodes, the i-th of them (parents in order,
\* siblings grouped under their parent) has angle i * 2*pi / N: the angles
\* lie in one revolution, are pairwise distinct, and depend on the node's
\* rank only, not on its parent.
C12_DepthTwoAnglesUniform ==
    layoutRuns > 0 =>
        \A n \in DepthTwo(data) :
            /\ Cardinality(DepthTwo(data)) * nodeX[n] = Rank(data, n) * FullTurn
            /\ 0 <= nodeX[n] /\ nodeX[n] < FullTurn
            /\ \A m \in DepthTwo(data) : m # n => nodeX[m] # nodeX[n]

\* three depth-2 nodes under two parents: the third is at two thirds of a turn
C12_Witness ==
    /\ layoutRuns > 0
    /\ data = <<2, 1>>
    /\ 3 * nodeX[[p |-> 2, c |-> 1]] = 2 * FullTurn

\* C13: a depth-1 node with children has the averageAngle of its
\* children's angles; with one child it has that child's angle; for the
\* root with A (three children) and B (one child), B is at 3*pi/2 and A at
\* the average of 0, pi/2 and pi, which is pi/2.
C13_DepthOneAngleIsChildrenAverage ==
    layoutRuns > 0 =>
        /\ \A i \in 1..Len(data) :
              LET n == [p |-> i, c |-> 0]
                  kids == Range(children(data, n))
              IN  /\ data[i] > 0 =>
                        nodeX[n] = calculateAverageAngle({nodeX[k] : k \in kids})
                  /\ data[i] = 1 => nodeX[n] = nodeX[[p |-> i, c |-> 1]]
        /\ data = <<3, 1>> =>
              /\ 2 * nodeX[[p |-> 2, c |-> 0]] = 3 * PI
              /\ 2 * nodeX[[p |-> 1, c |-> 0]] = PI

\* the hierarchy with A (three children) and B (one child) is laid out
C13_Witness ==
    /\ layoutRuns > 0
    /\ data = <<3, 1>>
    /\ nodeX[[p |-> 2, c |-> 0]] = nodeX[[p |-> 2, c |-> 1]]
    /\ nodeX[[p |-> 1, c |-> 1]] = 0

\* C14: for two angles a and 2*pi - a with 0 < a < pi/2 the average is 0
\* modulo 2*pi, not pi.
C14_AverageAcrossWrapIsZero ==
    LET S == lastAverage.angles
    IN  (/\ Cardinality(S) = 2
         /\ SetMin(S) > 0
         /\ 2 * SetMin(S) < PI
         /\ SetMax(S) = FullTurn - SetMin(S))
        => lastAverage.result % FullTurn = 0

\* the average of one slice past zero and one slice before it was taken
C14_Witness ==
    /\ lastAverage.angles = {FullTurn \div Slices, FullTurn - FullTurn \div Slices}
    /\ lastAverage.result = 0

AncestorChain(n) ==
    IF n = NoNode THEN {Root}
    ELSE {n, Root} \cup (IF nodeDepth(n) = 2 THEN {parentOf(n)} ELSE {})

\* the active set as stated: the root alone without a selection, the
\* selected node alone at depth 0 and at depth 2, the node and the root at
\* depth 1
StatedActive(n) ==
    IF n = NoNode THEN {Root}
    ELSE IF nodeDepth(n) = 1 THEN {n, Root} ELSE {n}

\* C16 as stated: after a selection update the active nodes are {root}
\* without a selection, {S} for the root, {S, root} at depth 1 and {S}
\* alone at depth 2, neither S's parent nor the root being active
C16_ActiveSetAsStated ==
    classified => activeNodes = StatedActive(selected)

\* C16, amended: after a selection update the active nodes are {root} without
\* a selection, {S} for the root, {S, root} at depth 1, and {S, parent(S),
\* root} at depth 2: the selected node together with all its ancestors
C16_ActiveSetIsAncestorChain ==
    classified => activeNodes = AncestorChain(selected)

\* a depth-2 node is selected and the nodes have been classified
C16_Witness ==
    /\ classified
    /\ selected # NoNode
    /\ nodeDepth(selected) = 2
    /\ parentOf(selected) \in activeNodes
    /\ Cardinality(HNodes(bound)) >= 5

\* C17: no node is both active and sibling; a node is sibling exactly when a
\* node is selected, the node is not the root, it has the selected node's
\* parent and it is not the selected node; the root is never sibling
C17_SiblingNodes ==
    /\ activeNodes \cap siblingNodes = {}
    /\ Root \notin siblingNodes
    /\ siblingNodes =
         {n \in HNodes(bound) \ {Root} :
             /\ selected # NoNode
             /\ selected # Root
             /\ parentOf(n) = parentOf(selected)
             /\ n # selected}

\* a depth-2 selection with two siblings has been classified
C17_Witness ==
    /\ classified
    /\ selected # NoNode
    /\ nodeDepth(selected) = 2
    /\ Cardinality(siblingNodes) >= 2
    /\ activeNodes # {}


\* the link from a node's parent into the node
LinkInto(n) == [source |-> parentOf(n), target |-> n]

\* the active links as stated: every link for the root; root -> S and S's
\* links to its children at depth 1; root -> parent(S) and parent(S) -> S at
\* depth 2
StatedActiveLinks(h, n) ==
    IF n = NoNode THEN {}
    ELSE IF nodeDepth(n) = 0 THEN Links(h)
    ELSE IF nodeDepth(n) = 1
    THEN {LinkInto(n)} \cup {l \in Links(h) : l.source = n}
    ELSE {LinkInto(parentOf(n)), LinkInto(n)}

\* C18: after a selection update the active links are all links when S is
\* the root; root -> S and the links from S to its children when S.depth = 1;
\* root -> parent(S) and parent(S) -> S when S.depth = 2, the links from
\* parent(S) to S's siblings not being active
C18_ActiveLinksAsStated ==
    classified => activeLinks = StatedActiveLinks(bound, selected)

\* C19 as stated: a link is sibling if and only if its source is S's
\* parent and its target is not S; no link with another source is sibling
C19_SiblingLinksAsStated ==
    classified =>
        siblingLinks = {l \in Links(bound) :
                           /\ selected # NoNode
                           /\ l.source = parentOf(selected)
                           /\ l.target # selected}

\* C19, amended: a link is sibling if and only if a node below the root is
\* selected and either the link's source is S's parent and its target is
\* not S, or S.depth = 2 and the link is a depth-1 -> depth-2 link not ending
\* at S, whatever its source
C19_SiblingLinksWithOuterRing ==
    classified =>
        siblingLinks = {l \in Links(bound) :
                           /\ selected # NoNode
                           /\ selected # Root
                           /\ l.target # selected
                           /\ \/ l.source = parentOf(selected)
                              \/ /\ nodeDepth(selected) = 2
                                 /\ nodeDepth(l.target) = 2}

\* a depth-2 node is selected, a link under another depth-1 node is sibling
C19_Witness ==
    /\ classified
    /\ selected # NoNode
    /\ nodeDepth(selected) = 2
    /\ \E l \in siblingLinks : l.source # parentOf(selected)
    /\ \E l \in siblingLinks : l.source = parentOf(selected)

nodeId(n) == CASE n = "R" -> "a" [] n = "A" -> "b" [] OTHER -> "c"

\* a preload for the id is under way: queued, or being fetched
PreloadTriggered(id, queue, fs) ==
    id \in QueueIds(queue) \/ \E f \in fs : f.id = id

\* C21: when the handling of an accepted select of node n runs and n's
\* content is not in the cache at that moment, a content preload for n's id
\* is triggered
C21_SelectTriggersPreload ==
    [][(resumeSelectionChange
          /\ Head(inFlight).newNode # NULL
          /\ nodeId(Head(inFlight).newNode) \notin CacheIds(cache))
        => PreloadTriggered(nodeId(Head(inFlight).newNode), preloadQueue', fetches')]_vars


(***************************************************************************)
(* Initialization claims.                                                  *)
(***************************************************************************)
\* the failures of the hierarchy load itself
LoadErrors == {"NetworkError", "SyntaxError", "DataFetchError"}

\* C22: when the initial hierarchy load has failed, init has run none of
\* the later setup steps, the state is the error state (isError true, the
\* error stored), the error event has been dispatched on the container, and
\* isInitialized is still false
C22_FailedLoadLeavesUninitialized ==
    \A i \in Containers :
        (managers[i].phase = "failed" /\ managers[i].data = NULL) =>
            /\ managers[i].steps = {}
            /\ managers[i].isError
            /\ managers[i].error \in LoadErrors
            /\ "circular-nav:error" \in managers[i].events
            /\ ~managers[i].isInitialized

\* one manager's load was answered with success false, another's fetch was
\* rejected
C22_Witness ==
    \E i, j \in Containers :
        /\ managers[i].phase = "failed"
        /\ managers[i].error = "DataFetchError"
        /\ managers[j].phase = "failed"
        /\ managers[j].error = "NetworkError"


(***************************************************************************)
(* Notification claims.                                                    *)
(***************************************************************************)
\* C23: every accepted selection change has, by the time its handling ends,
\* emitted the transition notifications (started, then ended) and the
\* selection-changed notification for the old and the new node
C23_SelectionChangeNotifies ==
    [][resumeSelectionChange
         => /\ "isTransitioningChange" \in notified'
            /\ "selectedNodeChange" \in notified']_vars


(***************************************************************************)
(* Further layout claims.                                                  *)
(***************************************************************************)
RECURSIVE Sum(_)
Sum(q) == IF q = <<>> THEN 0 ELSE Head(q) + Sum(Tail(q))

C25_NoStaleTransition ==
    /\ \A t \in running : t.by >= applied
    /\ lastCompleted.by >= lastCompleted.applied


(***************************************************************************)
(* Dimension claims.                                                       *)
(***************************************************************************)
RadiusComputed == lastRadius.rect.width > 0

\* C26 as stated: the radius is 35% of the smaller of width and height,
\* never below 1.5 times the central node's minimum size and never above
\* 40% of the width
C26_RadiusWithinFloorAndCap ==
    RadiusComputed =>
        /\ lastRadius.radius >= radiusFloor
        /\ lastRadius.radius <= 8 * lastRadius.rect.width
        /\ (baseRadius(lastRadius.rect) >= radiusFloor
              => lastRadius.radius = baseRadius(lastRadius.rect))

\* C26, amended: the radius is 35% of the smaller of width and height or
\* the floor of 1.5 times the central node's minimum size, whichever is
\* larger; it is above 40% of the width exactly when it is the floor and the
\* floor is above 40% of the width
C26_RadiusFloorBeforeCap ==
    RadiusComputed =>
        /\ lastRadius.radius >= radiusFloor
        /\ lastRadius.radius >= 7 * Min(lastRadius.rect.width, lastRadius.rect.height)
        /\ lastRadius.radius \in {radiusFloor,
                                  7 * Min(lastRadius.rect.width, lastRadius.rect.height)}
        /\ (lastRadius.radius > 8 * lastRadius.rect.width
              <=> (radiusFloor > 8 * lastRadius.rect.width))

\* a container narrower than the floor allows: the radius is the floor, above
\* 40% of the width
C26_Witness ==
    /\ RadiusComputed
    /\ lastRadius.rect.width = 200
    /\ lastRadius.rect.height = 400
    /\ lastRadius.radius = radiusFloor
    /\ lastRadius.radius > 8 * lastRadius.rect.width


\* the angle x lies on the arc that runs from angle a forward to angle b
OnArc(x, a, b) == (x - a) % FullTurn <= (b - a) % FullTurn

\* C27: after layout every depth-1 node with children lies on the arc from
\* its first child's angle to its last child's angle
C27_ParentWithinChildrenSpan ==
    layoutRuns > 0 =>
        \A i \in 1..Len(data) :
            data[i] > 0 =>
                OnArc(nodeX[[p |-> i, c |-> 0]],
                      nodeX[[p |-> i, c |-> 1]],
                      nodeX[[p |-> i, c |-> data[i]]])


\* C28: the visualization's isTransitioning flag is true whenever an update
\* or updateSelection call is in progress, and false only when none is
C28_FlagTrueWhileUpdating == (vizCalls # {}) => vizTransitioning


(***************************************************************************)
(* Zoom claims.                                                            *)
(***************************************************************************)
\* C29: after any sequence of zoom-in, zoom-out and reset operations the
\* zoom level is within [zoom.min, zoom.max]; a zoom-in never lowers the
\* level and a zoom-out never raises it
C29_ZoomWithinRange ==
    /\ currentZoom * ZoomMinInverse >= ZoomScale
    /\ currentZoom <= ZoomMax * ZoomScale
    /\ lastZoom.op = "in" => lastZoom.to >= lastZoom.from
    /\ lastZoom.op = "out" => lastZoom.to <= lastZoom.from

====
